---- MODULE Spec2Model ----
(***************************************************************************)
(* Model of the windowed load-join-annotate pipeline of                    *)
(* 04_gerp_derived_alleles.py (gerp_derived_alleles.py is the same         *)
(* pipeline, statement for statement): read_gerp_windows,                  *)
(* read_vcf_windows and count_derived_alleles over polars data frames.     *)
(*                                                                         *)
(* A data frame is a record [cols, dtype, rows]: the ordered column        *)
(* names, the dtype of every column and the rows (functions from column    *)
(* name to cell).  A cell is a record [k, s, n]: k is "str" (s holds the   *)
(* characters), "num" (n holds the number), "nan" (the float NaN) or       *)
(* "null" (polars' missing value).  Strings are sequences of characters    *)
(* so that split, contains and count_matches are computed, not assumed.    *)
(***************************************************************************)
EXTENDS Integers, Sequences, FiniteSets, TLC

\* ---------------------------------------------------------------- bounds
MaxPos == 2
MaxGerpRows == 2
MaxVcfRows == 2

\* ---------------------------------------------------------------- cells
Str(s) == [k |-> "str", s |-> s, n |-> 0]
Num(n) == [k |-> "num", s |-> <<>>, n |-> n]
NaN == [k |-> "nan", s |-> <<>>, n |-> 0]
Null == [k |-> "null", s |-> <<>>, n |-> 0]

Range(f) == {f[i] : i \in DOMAIN f}

\* list.index(x): position of the first occurrence of x
IndexOf(seq, x) == CHOOSE i \in 1..Len(seq) : seq[i] = x /\ \A j \in 1..(i - 1) : seq[j] # x

\* Python seq[k:] with a 0-based k
Tail0(seq, k) == SubSeq(seq, k + 1, Len(seq))

RECURSIVE Flatten(_)
Flatten(ss) == IF ss = <<>> THEN <<>> ELSE Head(ss) \o Flatten(Tail(ss))

\* ---------------------------------------------------------------- polars
\* is_between with the upper bound forgotten
is_between_noUpper(x, lo, hi) == lo <= x

\* Expr.is_between(lower, upper), closed = "both"
is_between(x, lo, hi) == lo <= x /\ x <= hi

\* DataFrame.filter(col(chromCol) == chrom & col(posCol).is_between(start, end))
FilterWindow(df, chrom, start, end) ==
    [df EXCEPT !.rows = SelectSeq(df.rows,
        LAMBDA r : r["#CHROM"] = Str(<<chrom>>) /\ is_between(r["POS"].n, start, end))]

\* Expr.str.split(":").list.first(): the characters before the first ':',
\* null for a null cell
RECURSIVE BeforeColon(_)
BeforeColon(s) ==
    IF s = <<>> \/ Head(s) = ":" THEN <<>> ELSE <<Head(s)>> \o BeforeColon(Tail(s))

SplitFirst(c) == IF c.k = "str" THEN Str(BeforeColon(c.s)) ELSE Null

\* Expr.str.contains(r'\.') on a String cell: null in, null out
ContainsDot(c) == c.k = "str" /\ \E i \in 1..Len(c.s) : c.s[i] = "."

\* Expr.str.count_matches(pattern) for a one-character pattern
RECURSIVE CountChar(_, _)
CountChar(s, ch) ==
    IF s = <<>> THEN 0
    ELSE (IF Head(s) = ch THEN 1 ELSE 0) + CountChar(Tail(s), ch)

\* DataFrame.drop(columns)
DropCols(df, names) ==
    LET keep == SelectSeq(df.cols, LAMBDA c : c \notin names)
    IN [cols |-> keep,
        dtype |-> [c \in Range(keep) |-> df.dtype[c]],
        rows |-> [i \in 1..Len(df.rows) |-> [c \in Range(keep) |-> df.rows[i][c]]]]

\* drop_nulls left out: unmatched rows of the left join stay
DropNulls_keepAll(df, col) == df

\* DataFrame.drop_nulls(col)
DropNulls(df, col) ==
    [df EXCEPT !.rows = SelectSeq(df.rows, LAMBDA r : r[col].k # "null")]

\* left.join(right, on = ['#CHROM', 'POS'], how = 'left'): every left row,
\* once per right row with the same key, or once with null right cells
JoinKeys == {"#CHROM", "POS"}

\* a join on the contig alone
JoinOn_chromOnly(l, r) == l["#CHROM"] = r["#CHROM"]

\* on = ['#CHROM', 'POS']: the rows l and r have the same key
JoinOn(l, r) == l["#CHROM"] = r["#CHROM"] /\ l["POS"] = r["POS"]

LeftJoin(left, right) ==
    LET rcols == SelectSeq(right.cols, LAMBDA c : c \notin JoinKeys)
        cols == left.cols \o rcols
        Merge(l, r) == [c \in Range(cols) |-> IF c \in Range(left.cols) THEN l[c] ELSE r[c]]
        Unmatched(l) == [c \in Range(cols) |-> IF c \in Range(left.cols) THEN l[c] ELSE Null]
        Matches(l) == SelectSeq(right.rows, LAMBDA r : JoinOn(l, r))
        RowsFor(l) == IF Matches(l) = <<>> THEN <<Unmatched(l)>>
                      ELSE [j \in 1..Len(Matches(l)) |-> Merge(l, Matches(l)[j])]
    IN [cols |-> cols,
        dtype |-> [c \in Range(cols) |->
                     IF c \in Range(left.cols) THEN left.dtype[c] ELSE right.dtype[c]],
        rows |-> Flatten([i \in 1..Len(left.rows) |-> RowsFor(left.rows[i])])]

\* ---------------------------------------------------------------- read_gerp_windows
GerpNames == <<"#CHROM", "POS", "ancestral_state", "gerp_score">>

GerpDtype ==
    [c \in Range(GerpNames) |->
        IF c = "POS" THEN "Int64" ELSE IF c = "gerp_score" THEN "Float64" ELSE "String"]

\* the row of pl.DataFrame({"#CHROM": chrom, 'POS': start,
\*                          'ancestral_state': nan, 'gerp_score': nan})
GerpSentinel(chrom, start) ==
    [cols |-> GerpNames,
     dtype |-> [c \in Range(GerpNames) |->
                  IF c = "#CHROM" THEN "String" ELSE IF c = "POS" THEN "Int64" ELSE "Float64"],
     rows |-> << [c \in Range(GerpNames) |->
                    IF c = "#CHROM" THEN Str(<<chrom>>)
                    ELSE IF c = "POS" THEN Num(start) ELSE NaN] >>]

read_gerp_windows(file, chrom, start, end) ==
    LET scanned == [cols |-> GerpNames, dtype |-> GerpDtype,
                    rows |-> [i \in 1..Len(file) |->
                                [c \in Range(GerpNames) |-> file[i][IndexOf(GerpNames, c)]]]]
        df == FilterWindow(scanned, chrom, start, end)
    IN IF Len(df.rows) = 0 THEN GerpSentinel(chrom, start) ELSE df

\* ---------------------------------------------------------------- read_vcf_windows
\* the "#CHROM" header line of the genotype file, as get_names returns it
VcfNames == <<"#CHROM", "POS", "ID", "REF", "ALT", "QUAL", "FILTER", "INFO", "FORMAT", "s1", "s2">>

VcfUnused == {"ID", "QUAL", "FILTER", "INFO", "FORMAT"}

VcfSentinel(names, chrom, start) ==
    LET cols == <<"#CHROM", "POS">> \o Tail0(names, 2)
    IN [cols |-> cols,
        dtype |-> [c \in Range(cols) |->
                     IF c = "#CHROM" THEN "String" ELSE IF c = "POS" THEN "Int64" ELSE "Float64"],
        rows |-> << [c \in Range(cols) |->
                       IF c = "#CHROM" THEN Str(<<chrom>>)
                       ELSE IF c = "POS" THEN Num(start) ELSE NaN] >>]

read_vcf_windows(file, chrom, start, end) ==
    LET names == VcfNames
        inds == Tail0(names, IndexOf(names, "FORMAT"))
        read == [cols |-> names,
                 dtype |-> [c \in Range(names) |-> IF c = "POS" THEN "Int64" ELSE "String"],
                 rows |-> [i \in 1..Len(file) |->
                             [c \in Range(names) |-> file[i][IndexOf(names, c)]]]]
        filtered == FilterWindow(read, chrom, start, end)
        fixed == [filtered EXCEPT !.rows =
                    [i \in 1..Len(filtered.rows) |->
                        [c \in Range(names) |->
                            IF c \in Range(inds) THEN SplitFirst(filtered.rows[i][c])
                            ELSE filtered.rows[i][c]]]]
        df == DropCols(fixed, VcfUnused)
    IN IF Len(df.rows) = 0 THEN VcfSentinel(names, chrom, start) ELSE df


\* ---------------------------------------------------------------- count_derived_alleles
\* a == b between two columns, and col == 'N' against a string literal:
\* polars refuses to compare a String with a numeric operand
CompareRaises(dtA, dtB) == (dtA = "String") # (dtB = "String")

\* the .str namespace (contains, count_matches) needs a String column
StrRaises(dt) == dt # "String"

\* the truth of a == b inside when(): a null operand gives null, which
\* when() treats as false; NaN equals NaN
EqCells(a, b) == a.k # "null" /\ b.k # "null" /\ a = b

\* the indicator with its two branches exchanged
num_ancestral_swapped(row) ==
    IF EqCells(row["ancestral_state"], row["REF"]) THEN "0" ELSE "1"

\* when(ancestral_state == REF).then('1').otherwise('0')
num_ancestral(row) ==
    IF EqCells(row["ancestral_state"], row["REF"]) THEN "1" ELSE "0"

\* Expr.str.count_matches(col('num_ancestral')): null for a null cell
CountMatches(c, ch) == IF c.k = "str" THEN Num(CountChar(c.s, ch)) ELSE Null

\* the chain without its first branch (the '.' test)
DerivedCell_noDotRule(row, x) ==
    IF EqCells(row["ancestral_state"], Str(<<"N">>)) THEN NaN
    ELSE IF row[x].k = "null" THEN NaN
    ELSE CountMatches(row[x], row["num_ancestral"].s[1])

\* the chain without its third branch (the is_null test)
DerivedCell_noNullRule(row, x) ==
    IF ContainsDot(row[x]) THEN NaN
    ELSE IF EqCells(row["ancestral_state"], Str(<<"N">>)) THEN NaN
    ELSE CountMatches(row[x], row["num_ancestral"].s[1])

\* the when/then chain of one sample column x, for one row
DerivedCell(row, x) ==
    IF ContainsDot(row[x]) THEN NaN
    ELSE IF EqCells(row["ancestral_state"], Str(<<"N">>)) THEN NaN
    ELSE IF row[x].k = "null" THEN NaN
    ELSE CountMatches(row[x], row["num_ancestral"].s[1])

Suffix == "_no_derived_alleles"

\* DataFrame.with_columns for new column names; cells[i][c] is the value of
\* the expression aliased c on row i
WithColumns(d, names, dt, cells) ==
    LET cols == d.cols \o names
    IN [cols |-> cols,
        dtype |-> [c \in Range(cols) |-> IF c \in Range(d.cols) THEN d.dtype[c] ELSE dt],
        rows |-> [i \in 1..Len(d.rows) |->
                    [c \in Range(cols) |->
                        IF c \in Range(d.cols) THEN d.rows[i][c] ELSE cells[i][c]]]]

EmptyDF == [cols |-> <<>>, dtype |-> <<>>, rows |-> <<>>]

VARIABLES gerpFile, vcfFile, chrom, start, end, pc, df_gerp, df_vcf, inds, df, result

vars == <<gerpFile, vcfFile, chrom, start, end, pc, df_gerp, df_vcf, inds, df, result>>

inputs == <<gerpFile, vcfFile, chrom, start, end>>

\* ---------------------------------------------------------------- inputs
Chr1 == Str(<<"chr1">>)
Chr2 == Str(<<"chr2">>)
A == Str(<<"A">>)
G == Str(<<"G">>)
Dot == Str(<<".">>)
Score == Num(3)

GerpRow(c, p, anc) == <<c, Num(p), anc, Score>>

VcfRow(c, p, c1, c2) ==
    <<c, Num(p), Dot, A, G, Dot, Dot, Dot, Str(<<"G", "T", ":", "D", "P">>), c1, c2>>

\* ancestral states of a score row: REF, ALT, a third base, unknown, empty field
AncStates == {A, G, Str(<<"C">>), Str(<<"N">>), Null}

\* call fields of a sample: GT[:subfields], or an empty field
Calls ==
    {Str(<<"0", "/", "0">>),
     Str(<<"0", "/", "1", ":", "3", "5">>),
     Str(<<"1", "/", "1", ":", ".">>),
     Str(<<".", "/", ".">>),
     Str(<<"0", "/", ".", ":", "9">>),
     Str(<<"1", "/", "2">>),
     Null}

SeqsUpTo(S, n) == UNION {[1..k -> S] : k \in 0..n}

GerpRowsJ == {GerpRow(Chr1, p, A) : p \in 1..MaxPos} \cup {GerpRow(Chr2, 1, A)}

VcfRowsJ ==
    {VcfRow(Chr1, p, Str(<<"0", "/", "1", ":", "3", "5">>), Str(<<"1", "/", "1">>)) : p \in 1..MaxPos}
        \cup {VcfRow(Chr2, 1, Str(<<"0", "/", "0">>), Str(<<"0", "/", "0">>))}

\* files of several rows, repeated positions and foreign contigs included
InitJoin ==
    /\ gerpFile \in SeqsUpTo(GerpRowsJ, MaxGerpRows)
    /\ vcfFile \in SeqsUpTo(VcfRowsJ, MaxVcfRows)

\* one score row and one genotype row at the same position, every ancestral
\* state and call field
InitAnnot ==
    \E p \in 1..MaxPos :
        /\ gerpFile \in {<<GerpRow(Chr1, p, anc)>> : anc \in AncStates}
        /\ vcfFile \in {<<VcfRow(Chr1, p, c1, c2)>> : c1 \in Calls, c2 \in Calls}

Init ==
    /\ InitJoin \/ InitAnnot
    /\ chrom = "chr1"
    /\ start \in 1..MaxPos
    /\ end \in 1..MaxPos
    /\ pc = "start"
    /\ df_gerp = EmptyDF
    /\ df_vcf = EmptyDF
    /\ inds = <<>>
    /\ df = EmptyDF
    /\ result = "none"

\* ---------------------------------------------------------------- steps
\* df_gerp = read_gerp_windows(gerp_path, chrom, start, end)
ReadGerp ==
    /\ pc = "start"
    /\ df_gerp' = read_gerp_windows(gerpFile, chrom, start, end)
    /\ pc' = "gerp_read"
    /\ UNCHANGED <<inputs, df_vcf, inds, df, result>>

\* df_vcf = read_vcf_windows(vcf_path, chrom, start, end, gzip=gzip)
ReadVcf ==
    /\ pc = "gerp_read"
    /\ df_vcf' = read_vcf_windows(vcfFile, chrom, start, end)
    /\ pc' = "vcf_read"
    /\ UNCHANGED <<inputs, df_gerp, inds, df, result>>

\* names = df_vcf.columns; inds = names[names.index('ALT')+1:]
TakeInds ==
    /\ pc = "vcf_read"
    /\ inds' = Tail0(df_vcf.cols, IndexOf(df_vcf.cols, "ALT"))
    /\ pc' = "inds"
    /\ UNCHANGED <<inputs, df_gerp, df_vcf, df, result>>

\* df = df_gerp.join(df_vcf, ...).drop_nulls(col('REF')); del df_gerp, df_vcf
Join ==
    /\ pc = "inds"
    /\ df' = DropNulls(LeftJoin(df_gerp, df_vcf), "REF")
    /\ df_gerp' = EmptyDF
    /\ df_vcf' = EmptyDF
    /\ pc' = "joined"
    /\ UNCHANGED <<inputs, inds, result>>

\* df = df.with_columns(when(ancestral_state == REF)...alias('num_ancestral'))
Indicator ==
    /\ pc = "joined"
    /\ IF CompareRaises(df.dtype["ancestral_state"], df.dtype["REF"])
       THEN /\ pc' = "done"
            /\ result' = "raised"
            /\ df' = df
       ELSE /\ pc' = "indicator"
            /\ result' = result
            /\ df' = WithColumns(df, <<"num_ancestral">>, "String",
                        [i \in 1..Len(df.rows) |->
                            [c \in {"num_ancestral"} |-> Str(<<num_ancestral(df.rows[i])>>)]])
    /\ UNCHANGED <<inputs, df_gerp, df_vcf, inds>>

\* df = df.with_columns(when(...)...alias(x+'_no_derived_alleles') for x in inds)
Annotate ==
    /\ pc = "indicator"
    /\ IF \/ \E i \in 1..Len(inds) : StrRaises(df.dtype[inds[i]])
          \/ (inds # <<>> /\ CompareRaises(df.dtype["ancestral_state"], "String"))
       THEN /\ pc' = "done"
            /\ result' = "raised"
            /\ df' = df
       ELSE /\ pc' = "annotated"
            /\ result' = result
            /\ df' = WithColumns(df, [k \in 1..Len(inds) |-> inds[k] \o Suffix], "Float64",
                        [i \in 1..Len(df.rows) |->
                            [c \in {inds[k] \o Suffix : k \in 1..Len(inds)} |->
                                DerivedCell(df.rows[i],
                                    CHOOSE x \in Range(inds) : x \o Suffix = c)]])
    /\ UNCHANGED <<inputs, df_gerp, df_vcf, inds>>

\* [df.drop_in_place(x) for x in inds + ['num_ancestral','REF','ALT']]; return df
DropAndReturn ==
    /\ pc = "annotated"
    /\ df' = DropCols(df, Range(inds) \cup {"num_ancestral", "REF", "ALT"})
    /\ pc' = "done"
    /\ result' = "returned"
    /\ UNCHANGED <<inputs, df_gerp, df_vcf, inds>>

Next == ReadGerp \/ ReadVcf \/ TakeInds \/ Join \/ Indicator \/ Annotate \/ DropAndReturn

Spec == Init /\ [][Next]_vars

TypeOK ==
    /\ pc \in {"start", "gerp_read", "vcf_read", "inds", "joined", "indicator", "annotated", "done"}
    /\ result \in {"none", "returned", "raised"}
    /\ (result # "none") <=> (pc = "done")


\* ---------------------------------------------------------------- vocabulary of the properties
\* rows of a source file on the requested contig with start <= POS <= end
InWindow(r) == r[1] = Str(<<chrom>>) /\ start <= r[2].n /\ r[2].n <= end

GerpInWin == SelectSeq(gerpFile, InWindow)

VcfInWin == SelectSeq(vcfFile, InWindow)

\* the sample columns of the genotype header
Samples == Tail0(VcfNames, 9)

SameKey(a, b) == a["#CHROM"] = b["#CHROM"] /\ a["POS"] = b["POS"]

Returned == pc = "done" /\ result = "returned"

\* C1: whenever count_derived_alleles completes, the returned table has at
\* least one row.
C1_AtLeastOneRow == Returned => Len(df.rows) >= 1

\* C2: when the score source has no row in the window, count_derived_alleles
\* returns exactly one row, at POS = start on the requested contig, every other
\* field NaN.
C2_EmptyScoreWindowOneRow ==
    (pc = "done" /\ GerpInWin = <<>>) =>
        /\ result = "returned"
        /\ Len(df.rows) = 1
        /\ \A c \in Range(df.cols) :
              df.rows[1][c] = (IF c = "#CHROM" THEN Str(<<chrom>>)
                               ELSE IF c = "POS" THEN Num(start) ELSE NaN)

\* C3 (as stated): the number of rows left by the join and drop_nulls never
\* exceeds the number of score records in the window whose position also
\* appears among the genotype records in the window.
C3_JoinCardinality ==
    pc = "joined" =>
        Len(df.rows) <= Cardinality({i \in 1..Len(GerpInWin) :
                            \E j \in 1..Len(VcfInWin) : VcfInWin[j][2] = GerpInWin[i][2]})

\* C3 (amended): the number of rows left by the join and drop_nulls never
\* exceeds the number of pairs (row returned by read_gerp_windows, row
\* returned by read_vcf_windows) with the same (#CHROM, POS).
C3_JoinPairs ==
    pc = "joined" =>
        LET g == read_gerp_windows(gerpFile, chrom, start, end).rows
            v == read_vcf_windows(vcfFile, chrom, start, end).rows
        IN Len(df.rows) <= Cardinality({p \in (1..Len(g)) \X (1..Len(v)) :
                                            SameKey(g[p[1]], v[p[2]])})

C3_Witness ==
    /\ pc = "joined"
    /\ Len(df.rows) >= 2
    /\ Len(GerpInWin) = 1
    /\ Len(VcfInWin) = 2

\* C4: every row of the returned table is on the requested contig and has
\* start <= POS <= end, both bounds inclusive.
C4_RowsInWindow ==
    Returned =>
        \A i \in 1..Len(df.rows) :
            /\ df.rows[i]["#CHROM"] = Str(<<chrom>>)
            /\ start <= df.rows[i]["POS"].n
            /\ df.rows[i]["POS"].n <= end

C4_Witness ==
    /\ Returned
    /\ \E i \in 1..Len(df.rows) : df.rows[i]["POS"].n = end /\ start < end
    /\ Len(GerpInWin) < Len(gerpFile)
    /\ Len(VcfInWin) < Len(vcfFile)

\* the call fields of sample k in the genotype rows that carry the key of r
CallsOf(r, k) ==
    {vcfFile[j][9 + k] : j \in {j \in 1..Len(vcfFile) :
                                    vcfFile[j][1] = r["#CHROM"] /\ vcfFile[j][2] = r["POS"]}}

\* the call field, cut at its first ':', contains '.'
TokenHasDot(c) ==
    /\ c.k = "str"
    /\ \E i \in 1..Len(c.s) : c.s[i] = "." /\ \A j \in 1..i : c.s[j] # ":"

\* C5: in every returned row, a sample whose genotype token contains '.' has
\* NaN as its derived-allele value, whatever the ancestral state.
C5_DotIsNaN ==
    Returned =>
        \A i \in 1..Len(df.rows) : \A k \in 1..Len(Samples) :
            (\A c \in CallsOf(df.rows[i], k) : TokenHasDot(c))
                => df.rows[i][Samples[k] \o Suffix] = NaN

C5_Witness ==
    /\ Returned
    /\ Len(df.rows) = 1
    /\ gerpFile[1][3] = A
    /\ CallsOf(df.rows[1], 1) = {Str(<<"0", "/", ".", ":", "9">>)}
    /\ CallsOf(df.rows[1], 2) = {Str(<<"1", "/", "1", ":", ".">>)}
    /\ df.rows[1]["s1" \o Suffix] = NaN
    /\ df.rows[1]["s2" \o Suffix] = Num(2)

\* C6: in every returned row, every <sample>_no_derived_alleles value is NaN
\* or a non-negative integer, never null.
C6_NaNOrCount ==
    Returned =>
        \A i \in 1..Len(df.rows) : \A k \in 1..Len(Samples) :
            LET c == df.rows[i][Samples[k] \o Suffix]
            IN c.k = "nan" \/ (c.k = "num" /\ c.n \in Nat)

C6_Witness ==
    /\ Returned
    /\ Len(df.rows) = 1
    /\ gerpFile[1][3] = G
    /\ CallsOf(df.rows[1], 1) = {Null}
    /\ df.rows[1]["s1" \o Suffix] = NaN
    /\ df.rows[1]["s2" \o Suffix].k = "num"

\* C7: every row left by the join carries the key of a row returned by
\* read_gerp_windows and of a row returned by read_vcf_windows: a score
\* position without a genotype record never reaches the output.
C7_KeysFromBothSources ==
    pc \in {"joined", "indicator", "annotated", "done"} =>
        LET g == read_gerp_windows(gerpFile, chrom, start, end).rows
            v == read_vcf_windows(vcfFile, chrom, start, end).rows
        IN \A i \in 1..Len(df.rows) :
              /\ \E a \in 1..Len(g) : SameKey(g[a], df.rows[i])
              /\ \E b \in 1..Len(v) : SameKey(v[b], df.rows[i])

C7_Witness ==
    /\ Returned
    /\ Len(df.rows) >= 1
    /\ \E a \in 1..Len(GerpInWin) : \A b \in 1..Len(VcfInWin) : VcfInWin[b][2] # GerpInWin[a][2]

\* C8: for every input (here: with score rows in the window),
\* count_derived_alleles returns a table whose columns are exactly #CHROM,
\* POS, ancestral_state, gerp_score and one <sample>_no_derived_alleles per
\* sample of the genotype header, in header order.
C8_ColumnsExact ==
    (pc = "done" /\ GerpInWin # <<>>) =>
        /\ result = "returned"
        /\ df.cols = GerpNames \o [k \in 1..Len(Samples) |-> Samples[k] \o Suffix]

\* the token holds allele indices 0 and 1 only
Biallelic(tok) == \A j \in 1..Len(tok) : tok[j] \in {"0", "1", "/"}

\* C9: for a row whose ancestral state is a base (not 'N') and a sample whose
\* token is present without '.', the derived-allele value is the number of
\* allele copies (REF for index 0, ALT for index 1) that differ from the
\* ancestral state.
C9_CountsDifferingAlleles ==
    pc = "annotated" =>
        \A i \in 1..Len(df.rows) : \A k \in 1..Len(Samples) :
            LET r == df.rows[i]
                tok == r[Samples[k]]
            IN (/\ r["ancestral_state"].k = "str"
                /\ r["ancestral_state"] # Str(<<"N">>)
                /\ tok.k = "str"
                /\ Biallelic(tok.s)) =>
                    r[Samples[k] \o Suffix] =
                        Num(Cardinality({j \in 1..Len(tok.s) :
                              \/ tok.s[j] = "0" /\ r["REF"] # r["ancestral_state"]
                              \/ tok.s[j] = "1" /\ r["ALT"] # r["ancestral_state"]}))

\* C10: for a joined row whose ancestral state is not 'N' and a sample whose
\* token is present without '.', the derived-allele value is the number of
\* occurrences in the token of '1' if ancestral_state equals REF, of '0'
\* otherwise.
C10_CountsIndicator ==
    pc = "annotated" =>
        \A i \in 1..Len(df.rows) : \A k \in 1..Len(Samples) :
            LET r == df.rows[i]
                tok == r[Samples[k]]
                ind == IF r["ancestral_state"] = r["REF"] THEN "1" ELSE "0"
            IN (/\ r["ancestral_state"] # Str(<<"N">>)
                /\ tok.k = "str"
                /\ \A j \in 1..Len(tok.s) : tok.s[j] # ".") =>
                    r[Samples[k] \o Suffix] =
                        Num(Cardinality({j \in 1..Len(tok.s) : tok.s[j] = ind}))

C10_Witness ==
    /\ pc = "annotated"
    /\ Len(df.rows) = 1
    /\ df.rows[1]["ancestral_state"] = df.rows[1]["REF"]
    /\ df.rows[1]["s1"] = Str(<<"0", "/", "0">>)
    /\ df.rows[1]["s1" \o Suffix] = Num(0)
    /\ df.rows[1]["s2"] = Str(<<"0", "/", "1">>)
    /\ df.rows[1]["s2" \o Suffix] = Num(1)

====
